---- MODULE Spec2Model ----
(***************************************************************************)
(* The recording-processing pipeline of elyune-backend: the upload-complete *)
(* endpoint (recordings/views.py), the Celery tasks of processing/tasks.py  *)
(* and the rows they read and write (recordings, processing and analysis    *)
(* models).  Database tables are sequences of rows in insertion order; a    *)
(* row's primary key is its index.  The Celery broker is a bag of messages; *)
(* task executions in progress are a bag of execution records, one program  *)
(* counter each.                                                            *)
(***************************************************************************)
EXTENDS Integers, Sequences, FiniteSets, Bags, TLC

\* ------------------------------------------------------------------ bounds
MaxClock == 1        \* timezone.now() takes values 0..MaxClock
MaxUploads == 2      \* upload-complete requests per recording
MaxRedeliver == 1    \* deliveries that leave the message on the broker
Workers == 2         \* task executions in progress at once
MaxDirect == 4       \* direct invocations (task.delay) of tasks
MaxLines == 5        \* lines of a response text

\* ------------------------------------------------------- program constants
PipelineMaxRetries == 3
ConvertMaxRetries == 2
ExtractMaxRetries == 2
TranscribeMaxRetries == 3
AnalyzeMaxRetries == 3

Recordings == {"R1"}

\* two recordings, for the behaviours in which pipelines run side by side
AllRecordings == Recordings \cup {"R2"}

Pipeline == "process_recording_pipeline"
Convert == "convert_webm_to_mp4"
Extract == "extract_audio_from_video"
Transcribe == "transcribe_audio"
Analyze == "analyze_transcription"

StageTasks == <<Convert, Extract, Transcribe, Analyze>>
Tasks == {Pipeline, Convert, Extract, Transcribe, Analyze}

\* step_name each stage task gives its ProcessingStep
StepName(t) ==
  CASE t = Convert -> "video_conversion"
    [] t = Extract -> "audio_extraction"
    [] t = Transcribe -> "speech_to_text"
    [] t = Analyze -> "ai_analysis"

\* @shared_task(bind=True, max_retries=...)
MaxRetries(t) ==
  CASE t = Pipeline -> PipelineMaxRetries
    [] t = Convert -> ConvertMaxRetries
    [] t = Extract -> ExtractMaxRetries
    [] t = Transcribe -> TranscribeMaxRetries
    [] t = Analyze -> AnalyzeMaxRetries

\* positional parameters of each task's run() after the bound self
Arity(t) == 1

NoTime == -1     \* a null DateTimeField
NoStep == 0      \* step = None

VARIABLES
  now,          \* the clock timezone.now() reads
  recording,    \* Recording rows: [Recordings -> [status, error_message, completed_at]]
  files,        \* RecordingFile rows
  jobs,         \* ProcessingJob rows
  steps,        \* ProcessingStep rows
  transcriptions, \* Transcription rows
  segments,     \* TranscriptionSegment rows
  analyses,     \* AIAnalysis rows
  store,        \* keys of the objects held by the S3/MinIO bucket
  scratch,      \* local files under /tmp
  queue,        \* broker: bag of task messages
  execs,        \* bag of task executions in progress
  sent,         \* history: apply_async/delay calls made, per task
  chainErrors,  \* history: chain links whose apply_async raised TypeError
  failed,       \* history: tasks that ended in FAILURE (retries exhausted)
  uploads,      \* history: upload-complete requests served
  redelivered,  \* history: deliveries that left the message on the broker
  direct,       \* history: direct invocations made
  settings,     \* django.conf.settings: which API keys are configured
  action_items  \* a call of extract_action_items: the response text and the result

vars == <<now, recording, files, jobs, steps, transcriptions, segments, analyses,
          store, scratch, queue, execs, sent, chainErrors, failed, uploads,
          redelivered, direct, settings, action_items>>

\* ----------------------------------------------------------------- helpers
BagAdd(B, x) == B (+) SetToBag({x})
BagRemove(B, x) == B (-) SetToBag({x})
BagReplace(B, x, y) == BagAdd(BagRemove(B, x), y)

\* Signature task.s(args): a partial, the parent's result is prepended
Sig(t, args) == [task |-> t, args |-> args]

Message(t, args, retries, chain) ==
  [task |-> t, args |-> args, retries |-> retries, chain |-> chain]

\* indices of the rows of a table that satisfy P
Rows(tbl, P(_)) == {i \in 1..Len(tbl) : P(tbl[i])}

\* recording.processing_job (OneToOneField reverse accessor)
JobsOf(r) == Rows(jobs, LAMBDA j : j.recording = r)
HasJob(r) == JobsOf(r) # {}
JobOf(r) == CHOOSE i \in JobsOf(r) : \A k \in JobsOf(r) : i <= k

StepsOf(j, name) == Rows(steps, LAMBDA s : s.job = j /\ s.step_name = name)
FilesOf(r, ft) == Rows(files, LAMBDA f : f.recording = r /\ f.file_type = ft)
TranscriptionsOf(r) == Rows(transcriptions, LAMBDA t : t.recording = r)
AnalysesOf(r, ty) == Rows(analyses, LAMBDA a : a.recording = r /\ a.analysis_type = ty)

S3Key(r, name) == <<"recordings", r, name>>
\* (a variant whose scratch paths do not carry the recording id)
TmpPath_Shared(r, name) == <<"/tmp", "", name>>


TmpPath(r, name) == <<"/tmp", r, name>>

\* ------------------------------------------------------------------- Init
\* extract_action_items has not been called
NoCall == [lines |-> <<>>, text |-> <<>>, called |-> FALSE, items |-> <<>>, total_count |-> 0]

\* django.conf.settings: each API key is configured or empty
Settings == [DEEPGRAM_API_KEY : BOOLEAN, GEMINI_API_KEY : BOOLEAN]

\* the database, the store, the worker and the broker before any request, with
\* the Recording rows rs
InitOf(rs) ==
  /\ now = 0
  /\ recording = [r \in rs |->
        [status |-> "uploading", error_message |-> "", completed_at |-> NoTime]]
  /\ files = <<>>
  /\ jobs = <<>>
  /\ steps = <<>>
  /\ transcriptions = <<>>
  /\ segments = <<>>
  /\ analyses = <<>>
  /\ store = {}
  /\ scratch = {}
  /\ queue = EmptyBag
  /\ execs = EmptyBag
  /\ sent = [t \in Tasks |-> 0]
  /\ chainErrors = {}
  /\ failed = {}
  /\ uploads = 0
  /\ redelivered = 0
  /\ direct = 0
  /\ settings \in Settings
  /\ action_items = NoCall

Init == InitOf(Recordings)

\* time passes
Tick ==
  /\ now < MaxClock
  /\ now' = now + 1
  /\ UNCHANGED <<recording, files, jobs, steps, transcriptions, segments, analyses,
                 store, scratch, queue, execs, sent, chainErrors, failed, uploads,
                 redelivered, direct, settings, action_items>>

\* ---------------------------------------------------------- upload endpoint
\* (a variant without the unique_together constraint)
FileUnique_Unconstrained(r, ft) == TRUE


\* unique_together = [['recording', 'file_type']]
FileUnique(r, ft) == FilesOf(r, ft) = {}

\* RecordingViewSet.upload_complete: POST /recordings/{id}/upload-complete
UploadComplete(r) ==
  /\ uploads < MaxUploads
  /\ uploads' = uploads + 1
  /\ recording' = [recording EXCEPT ![r].status = "uploaded"]
  /\ IF FileUnique(r, "original_webm")
       THEN /\ files' = Append(files, [recording |-> r, file_type |-> "original_webm",
                                       s3_key |-> S3Key(r, "original.webm")])
            /\ queue' = BagAdd(queue, Message(Pipeline, <<r>>, 0, <<>>))
            /\ sent' = [sent EXCEPT ![Pipeline] = @ + 1]
       ELSE \* IntegrityError: the request ends 500, nothing is triggered
            UNCHANGED <<files, queue, sent>>
  /\ UNCHANGED <<now, jobs, steps, transcriptions, segments, analyses, store, scratch,
                 execs, chainErrors, failed, redelivered, direct, settings, action_items>>

\* ------------------------------------------------------------------ worker
\* a model instance not loaded yet
NoRow == [status |-> "", error_message |-> "", completed_at |-> NoTime]

Execution(m) ==
  [task |-> m.task, r |-> m.args[1], retries |-> m.retries, chain |-> m.chain,
   pc |-> "start", step |-> NoStep, rec |-> NoRow, resp |-> <<>>, row |-> 0, done |-> 0,
   input |-> <<>>]

\* A worker takes a message off the broker and calls the task
Deliver(m) ==
  /\ BagIn(m, queue)
  /\ BagCardinality(execs) < Workers
  /\ Len(m.args) = Arity(m.task)
  /\ queue' = BagRemove(queue, m)
  /\ execs' = BagAdd(execs, Execution(m))
  /\ UNCHANGED <<now, recording, files, jobs, steps, transcriptions, segments,
                 analyses, store, scratch, sent, chainErrors, failed, uploads,
                 redelivered, direct, settings, action_items>>

\* At-least-once delivery: the task is called but the message stays on the
\* broker (its acknowledgement is lost) and will be delivered again
Redeliver(m) ==
  /\ BagIn(m, queue)
  /\ BagCardinality(execs) < Workers
  /\ Len(m.args) = Arity(m.task)
  /\ redelivered < MaxRedeliver
  /\ redelivered' = redelivered + 1
  /\ execs' = BagAdd(execs, Execution(m))
  /\ UNCHANGED <<now, recording, files, jobs, steps, transcriptions, segments,
                 analyses, store, scratch, queue, sent, chainErrors, failed, uploads,
                 direct, settings, action_items>>

\* (a variant whose retry test is off by one)
CanRetry_OffByOne(e) == e.retries <= MaxRetries(e.task)

\* self.retry(exc=exc, countdown=...): a new message while retries remain,
\* otherwise exc is raised and the task ends in FAILURE
CanRetry(e) == e.retries < MaxRetries(e.task)

\* (a variant that, out of retries, lets the chain go on to its next link)
QueueAfterRetry_ContinueChain(e) ==
  IF CanRetry(e)
    THEN BagAdd(queue, Message(e.task, <<e.r>>, e.retries + 1, e.chain))
    ELSE IF e.chain # <<>>
      THEN BagAdd(queue, Message(Head(e.chain).task, Head(e.chain).args, 0, Tail(e.chain)))
      ELSE queue

QueueAfterRetry(e) ==
  IF CanRetry(e)
    THEN BagAdd(queue, Message(e.task, <<e.r>>, e.retries + 1, e.chain))
    ELSE queue

FailedAfterRetry(e) ==
  IF CanRetry(e) THEN failed ELSE failed \cup {[task |-> e.task, r |-> e.r]}

\* ------------------------------------------------ process_recording_pipeline
\* OneToOneField('recordings.Recording'): one ProcessingJob per recording
JobUnique(r) == ~HasJob(r)

\* chain(convert.s(id), extract.s(id), transcribe.s(id), analyze.s(id))
Workflow(r) ==
  <<Sig(Convert, <<r>>), Sig(Extract, <<r>>), Sig(Transcribe, <<r>>), Sig(Analyze, <<r>>)>>

\* recording.status = 'processing'; recording.save()
PipelineSetProcessing ==
  \E e \in BagToSet(execs) :
    /\ e.task = Pipeline /\ e.pc = "start"
    /\ recording' = [recording EXCEPT ![e.r].status = "processing"]
    /\ execs' = BagReplace(execs, e, [e EXCEPT !.pc = "create_job"])
    /\ UNCHANGED <<now, files, jobs, steps, transcriptions, segments, analyses, store,
                   scratch, queue, sent, chainErrors, failed, uploads, redelivered, direct, settings, action_items>>

\* ProcessingJob.objects.create(...); on IntegrityError the except block retries
PipelineCreateJob ==
  \E e \in BagToSet(execs) :
    /\ e.task = Pipeline /\ e.pc = "create_job"
    /\ IF JobUnique(e.r)
         THEN /\ jobs' = Append(jobs, [recording |-> e.r, status |-> "running",
                                       started_at |-> now, completed_at |-> NoTime,
                                       progress_percentage |-> 0])
              /\ execs' = BagReplace(execs, e, [e EXCEPT !.pc = "apply_async"])
              /\ UNCHANGED <<queue, failed>>
         ELSE /\ execs' = BagRemove(execs, e)
              /\ queue' = QueueAfterRetry(e)
              /\ failed' = FailedAfterRetry(e)
              /\ UNCHANGED jobs
    /\ UNCHANGED <<now, recording, files, steps, transcriptions, segments, analyses,
                   store, scratch, sent, chainErrors, uploads, redelivered, direct, settings, action_items>>

\* workflow.apply_async(): the first task is sent with the rest of the chain;
\* if the broker refuses (ok = FALSE) the except block retries
PipelineApplyAsync(ok) ==
  \E e \in BagToSet(execs) :
    /\ e.task = Pipeline /\ e.pc = "apply_async"
    /\ execs' = BagRemove(execs, e)
    /\ IF ok
         THEN /\ queue' = BagAdd(queue, Message(Workflow(e.r)[1].task, Workflow(e.r)[1].args,
                                                0, Tail(Workflow(e.r))))
              /\ sent' = [sent EXCEPT ![Workflow(e.r)[1].task] = @ + 1]
              /\ UNCHANGED failed
         ELSE /\ queue' = QueueAfterRetry(e)
              /\ failed' = FailedAfterRetry(e)
              /\ UNCHANGED sent
    /\ UNCHANGED <<now, recording, files, jobs, steps, transcriptions, segments,
                   analyses, store, scratch, chainErrors, uploads, redelivered, direct, settings, action_items>>

\* ------------------------------------------------------------ stage helpers
\* (a variant without the unique_together constraint)
StepUnique_Unconstrained(j, name) == TRUE

\* unique_together = [['job', 'step_name']]
StepUnique(j, name) == StepsOf(j, name) = {}

NewStep(j, name) ==
  [job |-> j, step_name |-> name, status |-> "running", started_at |-> now,
   completed_at |-> NoTime, error_message |-> "", output_file |-> <<>>]

\* (a variant that looks the step up by (job, step_name) instead of using the
\* row this execution created)
StepsAfterFail_ByName(e, err) ==
  [i \in 1..Len(steps) |->
     IF HasJob(e.r) /\ steps[i].job = JobOf(e.r) /\ steps[i].step_name = StepName(e.task)
       THEN [steps[i] EXCEPT !.status = "failed", !.error_message = err]
       ELSE steps[i]]

\* (a variant that records the Step as completed when the attempt fails)
StepsAfterFail_MarksCompleted(e, err) ==
  IF e.step # NoStep
    THEN [steps EXCEPT ![e.step].status = "completed", ![e.step].completed_at = now]
    ELSE steps


\* except block: if step: step.status = 'failed'; step.error_message = str(exc)
StepsAfterFail(e, err) ==
  IF e.step # NoStep
    THEN [steps EXCEPT ![e.step].status = "failed", ![e.step].error_message = err]
    ELSE steps

\* except block of convert, extract and transcribe, then self.retry
StageExcept(e, err) ==
  /\ steps' = StepsAfterFail(e, err)
  /\ execs' = BagRemove(execs, e)
  /\ queue' = QueueAfterRetry(e)
  /\ failed' = FailedAfterRetry(e)

\* (a variant that forgets step.save() after setting the fields)
StepsAfterComplete_NoSave(e, out) == steps

\* step.status = 'completed'; step.completed_at = timezone.now(); step.save()
StepsAfterComplete(e, out) ==
  [steps EXCEPT ![e.step].status = "completed", ![e.step].completed_at = now,
                ![e.step].output_file = out]

\* Signature.apply_async((retval,)) of a chain link made with .s(...): the
\* parent's return value is prepended to the link's own arguments
CallArgs(sig, retval) == <<retval>> \o sig.args

\* Task.apply_async checks the arguments against run()'s signature
ArgsAccepted(t, args) == Len(args) = Arity(t)

\* The task returned retval: the worker sends the next link of the chain
QueueAfterReturn(e, retval) ==
  IF e.chain # <<>> /\ ArgsAccepted(Head(e.chain).task, CallArgs(Head(e.chain), retval))
    THEN BagAdd(queue, Message(Head(e.chain).task, CallArgs(Head(e.chain), retval),
                               0, Tail(e.chain)))
    ELSE queue

SentAfterReturn(e, retval) ==
  IF e.chain # <<>> /\ ArgsAccepted(Head(e.chain).task, CallArgs(Head(e.chain), retval))
    THEN [sent EXCEPT ![Head(e.chain).task] = @ + 1]
    ELSE sent

ChainErrorsAfterReturn(e, retval) ==
  IF e.chain # <<>> /\ ~ArgsAccepted(Head(e.chain).task, CallArgs(Head(e.chain), retval))
    THEN chainErrors \cup {[task |-> Head(e.chain).task,
                            args |-> CallArgs(Head(e.chain), retval)]}
    ELSE chainErrors

\* -------------------------------------------------------- convert_webm_to_mp4
\* recording.processing_job; ProcessingStep.objects.create(... 'video_conversion' ...)
ConvertBegin ==
  \E e \in BagToSet(execs) :
    /\ e.task = Convert /\ e.pc = "start"
    /\ IF ~HasJob(e.r)
         THEN StageExcept(e, "RelatedObjectDoesNotExist")
         ELSE IF ~StepUnique(JobOf(e.r), StepName(Convert))
           THEN StageExcept(e, "IntegrityError")
           ELSE /\ steps' = Append(steps, NewStep(JobOf(e.r), StepName(Convert)))
                /\ execs' = BagReplace(execs, e,
                              [e EXCEPT !.pc = "download", !.step = Len(steps) + 1])
                /\ UNCHANGED <<queue, failed>>
    /\ UNCHANGED <<now, recording, files, jobs, transcriptions, segments, analyses,
                   store, scratch, sent, chainErrors, uploads, redelivered, direct,
                   settings, action_items>>

\* (a variant in which every stage downloads the original upload)
InputFileType_AllOriginal(t) == "original_webm"

\* recording.files.get(file_type=...): the file a stage downloads as its input
InputFileType(t) ==
  CASE t = Convert -> "original_webm"
    [] t = Extract -> "original_webm"
    [] t = Transcribe -> "audio_extract"

\* webm_file.s3_key: the key of the file row the execution e downloads
InputKey(e) ==
  files[CHOOSE f \in FilesOf(e.r, InputFileType(e.task)) : TRUE].s3_key

\* recording.files.get(file_type='original_webm'); download_from_s3(...)
ConvertDownload(ok) ==
  \E e \in BagToSet(execs) :
    /\ e.task = Convert /\ e.pc = "download"
    /\ IF FilesOf(e.r, InputFileType(e.task)) = {}
         THEN StageExcept(e, "DoesNotExist") /\ UNCHANGED scratch
         ELSE IF ~ok
           THEN StageExcept(e, "ClientError") /\ UNCHANGED scratch
           ELSE /\ scratch' = scratch \cup {TmpPath(e.r, "original.webm")}
                /\ execs' = BagReplace(execs, e, [e EXCEPT !.pc = "ffmpeg",
                                                           !.input = InputKey(e)])
                /\ UNCHANGED <<steps, queue, failed>>
    /\ UNCHANGED <<now, recording, files, jobs, transcriptions, segments, analyses,
                   store, sent, chainErrors, uploads, redelivered, direct, settings, action_items>>

\* subprocess.run(ffmpeg ...); returncode != 0 or a timeout raises
ConvertFfmpeg(ok) ==
  \E e \in BagToSet(execs) :
    /\ e.task = Convert /\ e.pc = "ffmpeg"
    /\ IF ~ok
         THEN StageExcept(e, "FFmpeg failed") /\ UNCHANGED scratch
         ELSE /\ scratch' = scratch \cup {TmpPath(e.r, "converted.mp4")}
              /\ execs' = BagReplace(execs, e, [e EXCEPT !.pc = "upload"])
              /\ UNCHANGED <<steps, queue, failed>>
    /\ UNCHANGED <<now, recording, files, jobs, transcriptions, segments, analyses,
                   store, sent, chainErrors, uploads, redelivered, direct, settings, action_items>>

\* upload_to_s3(mp4_path, s3_key)
ConvertUpload(ok) ==
  \E e \in BagToSet(execs) :
    /\ e.task = Convert /\ e.pc = "upload"
    /\ IF ~ok
         THEN StageExcept(e, "ClientError") /\ UNCHANGED store
         ELSE /\ store' = store \cup {S3Key(e.r, "converted.mp4")}
              /\ execs' = BagReplace(execs, e, [e EXCEPT !.pc = "save_file"])
              /\ UNCHANGED <<steps, queue, failed>>
    /\ UNCHANGED <<now, recording, files, jobs, transcriptions, segments, analyses,
                   scratch, sent, chainErrors, uploads, redelivered, direct, settings, action_items>>

\* RecordingFile.objects.create(... file_type='converted_mp4' ...)
ConvertSaveFile ==
  \E e \in BagToSet(execs) :
    /\ e.task = Convert /\ e.pc = "save_file"
    /\ IF ~FileUnique(e.r, "converted_mp4")
         THEN StageExcept(e, "IntegrityError") /\ UNCHANGED files
         ELSE /\ files' = Append(files, [recording |-> e.r, file_type |-> "converted_mp4",
                                         s3_key |-> S3Key(e.r, "converted.mp4")])
              /\ execs' = BagReplace(execs, e, [e EXCEPT !.pc = "complete"])
              /\ UNCHANGED <<steps, queue, failed>>
    /\ UNCHANGED <<now, recording, jobs, transcriptions, segments, analyses, store,
                   scratch, sent, chainErrors, uploads, redelivered, direct, settings, action_items>>

\* step.status = 'completed' ... step.save()
ConvertComplete ==
  \E e \in BagToSet(execs) :
    /\ e.task = Convert /\ e.pc = "complete"
    /\ steps' = StepsAfterComplete(e, S3Key(e.r, "converted.mp4"))
    /\ execs' = BagReplace(execs, e, [e EXCEPT !.pc = "cleanup"])
    /\ UNCHANGED <<now, recording, files, jobs, transcriptions, segments, analyses,
                   store, scratch, queue, sent, chainErrors, failed, uploads,
                   redelivered, direct, settings, action_items>>

\* os.remove(webm_path); os.remove(mp4_path); return recording_id
ConvertReturn ==
  \E e \in BagToSet(execs) :
    /\ e.task = Convert /\ e.pc = "cleanup"
    /\ IF TmpPath(e.r, "original.webm") \notin scratch
         THEN StageExcept(e, "FileNotFoundError")
              /\ UNCHANGED <<scratch, sent, chainErrors>>
         ELSE IF TmpPath(e.r, "converted.mp4") \notin scratch
           THEN StageExcept(e, "FileNotFoundError")
                /\ scratch' = scratch \ {TmpPath(e.r, "original.webm")}
                /\ UNCHANGED <<sent, chainErrors>>
           ELSE /\ scratch' = scratch \ {TmpPath(e.r, "original.webm"), TmpPath(e.r, "converted.mp4")}
                /\ execs' = BagRemove(execs, e)
                /\ queue' = QueueAfterReturn(e, e.r)
                /\ sent' = SentAfterReturn(e, e.r)
                /\ chainErrors' = ChainErrorsAfterReturn(e, e.r)
                /\ UNCHANGED <<steps, failed>>
    /\ UNCHANGED <<now, recording, files, jobs, transcriptions, segments, analyses,
                   store, uploads, redelivered, direct, settings, action_items>>

\* --------------------------------------------------- extract_audio_from_video
\* recording.processing_job; ProcessingStep.objects.create(... 'audio_extraction' ...)
ExtractBegin ==
  \E e \in BagToSet(execs) :
    /\ e.task = Extract /\ e.pc = "start"
    /\ IF ~HasJob(e.r)
         THEN StageExcept(e, "RelatedObjectDoesNotExist")
         ELSE IF ~StepUnique(JobOf(e.r), StepName(Extract))
           THEN StageExcept(e, "IntegrityError")
           ELSE /\ steps' = Append(steps, NewStep(JobOf(e.r), StepName(Extract)))
                /\ execs' = BagReplace(execs, e,
                              [e EXCEPT !.pc = "download", !.step = Len(steps) + 1])
                /\ UNCHANGED <<queue, failed>>
    /\ UNCHANGED <<now, recording, files, jobs, transcriptions, segments, analyses,
                   store, scratch, sent, chainErrors, uploads, redelivered, direct,
                   settings, action_items>>

\* recording.files.get(file_type='original_webm'); download_from_s3(...)
ExtractDownload(ok) ==
  \E e \in BagToSet(execs) :
    /\ e.task = Extract /\ e.pc = "download"
    /\ IF FilesOf(e.r, InputFileType(e.task)) = {}
         THEN StageExcept(e, "DoesNotExist") /\ UNCHANGED scratch
         ELSE IF ~ok
           THEN StageExcept(e, "ClientError") /\ UNCHANGED scratch
           ELSE /\ scratch' = scratch \cup {TmpPath(e.r, "original.webm")}
                /\ execs' = BagReplace(execs, e, [e EXCEPT !.pc = "ffmpeg",
                                                           !.input = InputKey(e)])
                /\ UNCHANGED <<steps, queue, failed>>
    /\ UNCHANGED <<now, recording, files, jobs, transcriptions, segments, analyses,
                   store, sent, chainErrors, uploads, redelivered, direct, settings, action_items>>

\* subprocess.run(ffmpeg ...); returncode != 0 or a timeout raises
ExtractFfmpeg(ok) ==
  \E e \in BagToSet(execs) :
    /\ e.task = Extract /\ e.pc = "ffmpeg"
    /\ IF ~ok
         THEN StageExcept(e, "Audio extraction failed") /\ UNCHANGED scratch
         ELSE /\ scratch' = scratch \cup {TmpPath(e.r, "audio.wav")}
              /\ execs' = BagReplace(execs, e, [e EXCEPT !.pc = "upload"])
              /\ UNCHANGED <<steps, queue, failed>>
    /\ UNCHANGED <<now, recording, files, jobs, transcriptions, segments, analyses,
                   store, sent, chainErrors, uploads, redelivered, direct, settings, action_items>>

\* upload_to_s3(audio_path, s3_key)
ExtractUpload(ok) ==
  \E e \in BagToSet(execs) :
    /\ e.task = Extract /\ e.pc = "upload"
    /\ IF ~ok
         THEN StageExcept(e, "ClientError") /\ UNCHANGED store
         ELSE /\ store' = store \cup {S3Key(e.r, "audio.wav")}
              /\ execs' = BagReplace(execs, e, [e EXCEPT !.pc = "save_file"])
              /\ UNCHANGED <<steps, queue, failed>>
    /\ UNCHANGED <<now, recording, files, jobs, transcriptions, segments, analyses,
                   scratch, sent, chainErrors, uploads, redelivered, direct, settings, action_items>>

\* RecordingFile.objects.create(... file_type='audio_extract' ...)
ExtractSaveFile ==
  \E e \in BagToSet(execs) :
    /\ e.task = Extract /\ e.pc = "save_file"
    /\ IF ~FileUnique(e.r, "audio_extract")
         THEN StageExcept(e, "IntegrityError") /\ UNCHANGED files
         ELSE /\ files' = Append(files, [recording |-> e.r, file_type |-> "audio_extract",
                                         s3_key |-> S3Key(e.r, "audio.wav")])
              /\ execs' = BagReplace(execs, e, [e EXCEPT !.pc = "complete"])
              /\ UNCHANGED <<steps, queue, failed>>
    /\ UNCHANGED <<now, recording, jobs, transcriptions, segments, analyses, store,
                   scratch, sent, chainErrors, uploads, redelivered, direct, settings, action_items>>

\* step.status = 'completed' ... step.save()
ExtractComplete ==
  \E e \in BagToSet(execs) :
    /\ e.task = Extract /\ e.pc = "complete"
    /\ steps' = StepsAfterComplete(e, S3Key(e.r, "audio.wav"))
    /\ execs' = BagReplace(execs, e, [e EXCEPT !.pc = "cleanup"])
    /\ UNCHANGED <<now, recording, files, jobs, transcriptions, segments, analyses,
                   store, scratch, queue, sent, chainErrors, failed, uploads,
                   redelivered, direct, settings, action_items>>

\* os.remove(webm_path); os.remove(audio_path); return recording_id
ExtractReturn ==
  \E e \in BagToSet(execs) :
    /\ e.task = Extract /\ e.pc = "cleanup"
    /\ IF TmpPath(e.r, "original.webm") \notin scratch
         THEN StageExcept(e, "FileNotFoundError")
              /\ UNCHANGED <<scratch, sent, chainErrors>>
         ELSE IF TmpPath(e.r, "audio.wav") \notin scratch
           THEN StageExcept(e, "FileNotFoundError")
                /\ scratch' = scratch \ {TmpPath(e.r, "original.webm")}
                /\ UNCHANGED <<sent, chainErrors>>
           ELSE /\ scratch' = scratch \ {TmpPath(e.r, "original.webm"), TmpPath(e.r, "audio.wav")}
                /\ execs' = BagRemove(execs, e)
                /\ queue' = QueueAfterReturn(e, e.r)
                /\ sent' = SentAfterReturn(e, e.r)
                /\ chainErrors' = ChainErrorsAfterReturn(e, e.r)
                /\ UNCHANGED <<steps, failed>>
    /\ UNCHANGED <<now, recording, files, jobs, transcriptions, segments, analyses,
                   store, uploads, redelivered, direct, settings, action_items>>

\* ----------------------------------------------------------- transcribe_audio
\* An utterance of the Deepgram response
Utt(a, b, sp) == [start |-> a, end |-> b, speaker |-> sp]

\* result.utterances: the responses the speech-to-text service may give
Responses ==
  { <<>>,
    <<Utt(0, 1, 0), Utt(1, 2, 1)>>,
    <<Utt(1, 2, 0), Utt(0, 1, 0)>> }

\* (a variant that counts the utterances instead of the distinct speakers)
NumSpeakers_CountsUtterances(utts) == Len(utts)


\* len(set(u.speaker for u in result.utterances)) if result.utterances else 0
NumSpeakers(utts) ==
  IF utts = <<>> THEN 0 ELSE Cardinality({utts[i].speaker : i \in 1..Len(utts)})

\* f"Speaker {utterance.speaker}"
SpeakerLabel(sp) == <<"Speaker", sp>>

\* OneToOneField('recordings.Recording'): one Transcription per recording
TranscriptionUnique(r) == TranscriptionsOf(r) = {}

\* the pks of the TranscriptionSegments of transcription k, in creation order
SegmentsOf(k) == SelectSeq([i \in 1..Len(segments) |-> i],
                           LAMBDA i : segments[i].transcription = k)

\* (a variant without Meta.ordering: rows come in creation order)
OrderByStartTime_Unordered(pks) == pks

\* ORDER BY start_time_seconds: pk i goes behind the rows that do not start later
RECURSIVE InsertByStartTime(_, _)
InsertByStartTime(sorted, i) ==
  IF sorted = <<>> \/ segments[i].start_time_seconds < segments[Head(sorted)].start_time_seconds
    THEN <<i>> \o sorted
    ELSE <<Head(sorted)>> \o InsertByStartTime(Tail(sorted), i)

RECURSIVE OrderByStartTime(_)
OrderByStartTime(pks) ==
  IF pks = <<>>
    THEN <<>>
    ELSE InsertByStartTime(OrderByStartTime(SubSeq(pks, 1, Len(pks) - 1)), pks[Len(pks)])

\* transcription.segments.all(), with Meta: ordering = ['start_time_seconds']
SegmentsAll(k) == OrderByStartTime(SegmentsOf(k))

\* recording.processing_job; ProcessingStep.objects.create(... 'speech_to_text' ...)
TranscribeBegin ==
  \E e \in BagToSet(execs) :
    /\ e.task = Transcribe /\ e.pc = "start"
    /\ IF ~HasJob(e.r)
         THEN StageExcept(e, "RelatedObjectDoesNotExist")
         ELSE IF ~StepUnique(JobOf(e.r), StepName(Transcribe))
           THEN StageExcept(e, "IntegrityError")
           ELSE /\ steps' = Append(steps, NewStep(JobOf(e.r), StepName(Transcribe)))
                /\ execs' = BagReplace(execs, e,
                              [e EXCEPT !.pc = "download", !.step = Len(steps) + 1])
                /\ UNCHANGED <<queue, failed>>
    /\ UNCHANGED <<now, recording, files, jobs, transcriptions, segments, analyses,
                   store, scratch, sent, chainErrors, uploads, redelivered, direct,
                   settings, action_items>>

\* if not settings.DEEPGRAM_API_KEY: raise; recording.files.get('audio_extract');
\* download_from_s3(...)
TranscribeDownload(ok) ==
  \E e \in BagToSet(execs) :
    /\ e.task = Transcribe /\ e.pc = "download"
    /\ IF ~settings.DEEPGRAM_API_KEY
         THEN StageExcept(e, "DEEPGRAM_API_KEY not configured") /\ UNCHANGED scratch
         ELSE IF FilesOf(e.r, InputFileType(e.task)) = {}
           THEN StageExcept(e, "DoesNotExist") /\ UNCHANGED scratch
           ELSE IF ~ok
             THEN StageExcept(e, "ClientError") /\ UNCHANGED scratch
             ELSE /\ scratch' = scratch \cup {TmpPath(e.r, "audio.wav")}
                  /\ execs' = BagReplace(execs, e, [e EXCEPT !.pc = "transcribe",
                                                             !.input = InputKey(e)])
                  /\ UNCHANGED <<steps, queue, failed>>
    /\ UNCHANGED <<now, recording, files, jobs, transcriptions, segments, analyses,
                   store, sent, chainErrors, uploads, redelivered, direct, settings, action_items>>

\* deepgram.listen.rest.v("1").transcribe_file(payload, options)
TranscribeCall(ok, resp) ==
  \E e \in BagToSet(execs) :
    /\ e.task = Transcribe /\ e.pc = "transcribe"
    /\ IF ~ok
         THEN StageExcept(e, "Deepgram error")
         ELSE /\ execs' = BagReplace(execs, e,
                            [e EXCEPT !.pc = "create_transcription", !.resp = resp])
              /\ UNCHANGED <<steps, queue, failed>>
    /\ UNCHANGED <<now, recording, files, jobs, transcriptions, segments, analyses,
                   store, scratch, sent, chainErrors, uploads, redelivered, direct,
                   settings, action_items>>

\* Transcription.objects.create(...)
TranscribeCreateTranscription ==
  \E e \in BagToSet(execs) :
    /\ e.task = Transcribe /\ e.pc = "create_transcription"
    /\ IF ~TranscriptionUnique(e.r)
         THEN StageExcept(e, "IntegrityError") /\ UNCHANGED transcriptions
         ELSE /\ transcriptions' = Append(transcriptions,
                   [recording |-> e.r, num_speakers |-> NumSpeakers(e.resp),
                    deepgram_response |-> e.resp])
              /\ execs' = BagReplace(execs, e,
                   [e EXCEPT !.pc = "create_segments", !.row = Len(transcriptions) + 1])
              /\ UNCHANGED <<steps, queue, failed>>
    /\ UNCHANGED <<now, recording, files, jobs, segments, analyses, store, scratch,
                   sent, chainErrors, uploads, redelivered, direct, settings, action_items>>

\* for utterance in result.utterances: TranscriptionSegment.objects.create(...)
TranscribeCreateSegment ==
  \E e \in BagToSet(execs) :
    /\ e.task = Transcribe /\ e.pc = "create_segments" /\ e.done < Len(e.resp)
    /\ segments' = Append(segments,
         [transcription |-> e.row,
          start_time_seconds |-> e.resp[e.done + 1].start,
          end_time_seconds |-> e.resp[e.done + 1].end,
          speaker_id |-> e.resp[e.done + 1].speaker,
          speaker_label |-> SpeakerLabel(e.resp[e.done + 1].speaker)])
    /\ execs' = BagReplace(execs, e, [e EXCEPT !.done = @ + 1])
    /\ UNCHANGED <<now, recording, files, jobs, steps, transcriptions, analyses, store,
                   scratch, queue, sent, chainErrors, failed, uploads, redelivered,
                   direct, settings, action_items>>

\* step.status = 'completed' ... step.save()
TranscribeComplete ==
  \E e \in BagToSet(execs) :
    /\ e.task = Transcribe /\ e.pc = "create_segments" /\ e.done = Len(e.resp)
    /\ steps' = StepsAfterComplete(e, <<>>)
    /\ execs' = BagReplace(execs, e, [e EXCEPT !.pc = "cleanup"])
    /\ UNCHANGED <<now, recording, files, jobs, transcriptions, segments, analyses,
                   store, scratch, queue, sent, chainErrors, failed, uploads,
                   redelivered, direct, settings, action_items>>

\* os.remove(audio_path); return recording_id
TranscribeReturn ==
  \E e \in BagToSet(execs) :
    /\ e.task = Transcribe /\ e.pc = "cleanup"
    /\ IF TmpPath(e.r, "audio.wav") \notin scratch
         THEN StageExcept(e, "FileNotFoundError")
              /\ UNCHANGED <<scratch, sent, chainErrors>>
         ELSE /\ scratch' = scratch \ {TmpPath(e.r, "audio.wav")}
              /\ execs' = BagRemove(execs, e)
              /\ queue' = QueueAfterReturn(e, e.r)
              /\ sent' = SentAfterReturn(e, e.r)
              /\ chainErrors' = ChainErrorsAfterReturn(e, e.r)
              /\ UNCHANGED <<steps, failed>>
    /\ UNCHANGED <<now, recording, files, jobs, transcriptions, segments, analyses,
                   store, uploads, redelivered, direct, settings, action_items>>

\* ------------------------------------------------------ analyze_transcription
\* the four analyses, in the order the task makes them
AnalysisTypes == <<"summary", "action_items", "key_points", "sentiment">>

\* unique_together = [['recording', 'analysis_type']]
AnalysisUnique(r, ty) == AnalysesOf(r, ty) = {}

\* except block of analyze_transcription: the step, then the recording (saved
\* from the copy rec the task loaded), then self.retry
AnalyzeExcept(e, rec, err) ==
  /\ steps' = StepsAfterFail(e, err)
  /\ recording' = [recording EXCEPT ![e.r] =
                     [rec EXCEPT !.status = "failed", !.error_message = err]]
  /\ execs' = BagRemove(execs, e)
  /\ queue' = QueueAfterRetry(e)
  /\ failed' = FailedAfterRetry(e)

\* Recording.objects.get; recording.processing_job; recording.transcription;
\* ProcessingStep.objects.create(... 'ai_analysis' ...)
AnalyzeBegin ==
  \E e \in BagToSet(execs) :
    /\ e.task = Analyze /\ e.pc = "start"
    /\ IF ~HasJob(e.r) \/ TranscriptionsOf(e.r) = {}
         THEN AnalyzeExcept(e, recording[e.r], "RelatedObjectDoesNotExist")
         ELSE IF ~StepUnique(JobOf(e.r), StepName(Analyze))
           THEN AnalyzeExcept(e, recording[e.r], "IntegrityError")
           ELSE /\ steps' = Append(steps, NewStep(JobOf(e.r), StepName(Analyze)))
                /\ execs' = BagReplace(execs, e,
                     [e EXCEPT !.pc = "generate", !.step = Len(steps) + 1,
                               !.rec = recording[e.r],
                               !.row = CHOOSE k \in TranscriptionsOf(e.r) : TRUE])
                /\ UNCHANGED <<recording, queue, failed>>
    /\ UNCHANGED <<now, files, jobs, transcriptions, segments, analyses, store, scratch,
                   sent, chainErrors, uploads, redelivered, direct, settings, action_items>>

\* if not settings.GEMINI_API_KEY: raise; then, one analysis type at a time,
\* the Gemini call and AIAnalysis.objects.create(...)
AnalyzeGenerate(ok) ==
  \E e \in BagToSet(execs) :
    /\ e.task = Analyze /\ e.pc = "generate" /\ e.done < Len(AnalysisTypes)
    /\ IF ~settings.GEMINI_API_KEY
         THEN AnalyzeExcept(e, e.rec, "GEMINI_API_KEY not configured")
              /\ UNCHANGED analyses
         ELSE IF ~ok
           THEN AnalyzeExcept(e, e.rec, "Gemini error") /\ UNCHANGED analyses
           ELSE IF ~AnalysisUnique(e.r, AnalysisTypes[e.done + 1])
             THEN AnalyzeExcept(e, e.rec, "IntegrityError") /\ UNCHANGED analyses
             ELSE /\ analyses' = Append(analyses,
                       [recording |-> e.r, analysis_type |-> AnalysisTypes[e.done + 1]])
                  /\ execs' = BagReplace(execs, e, [e EXCEPT !.done = @ + 1])
                  /\ UNCHANGED <<recording, steps, queue, failed>>
    /\ UNCHANGED <<now, files, jobs, transcriptions, segments, store, scratch, sent,
                   chainErrors, uploads, redelivered, direct, settings, action_items>>

\* step.status = 'completed' ... step.save()
AnalyzeComplete ==
  \E e \in BagToSet(execs) :
    /\ e.task = Analyze /\ e.pc = "generate" /\ e.done = Len(AnalysisTypes)
    /\ steps' = StepsAfterComplete(e, <<>>)
    /\ execs' = BagReplace(execs, e, [e EXCEPT !.pc = "save_recording"])
    /\ UNCHANGED <<now, recording, files, jobs, transcriptions, segments, analyses,
                   store, scratch, queue, sent, chainErrors, failed, uploads,
                   redelivered, direct, settings, action_items>>

\* recording.status = 'completed'; recording.completed_at = now; recording.save()
AnalyzeSaveRecording ==
  \E e \in BagToSet(execs) :
    /\ e.task = Analyze /\ e.pc = "save_recording"
    /\ recording' = [recording EXCEPT ![e.r] =
                       [e.rec EXCEPT !.status = "completed", !.completed_at = now]]
    /\ execs' = BagReplace(execs, e, [e EXCEPT !.pc = "save_job"])
    /\ UNCHANGED <<now, files, jobs, steps, transcriptions, segments, analyses, store,
                   scratch, queue, sent, chainErrors, failed, uploads, redelivered,
                   direct, settings, action_items>>

\* job.status = 'completed'; job.completed_at = now; job.progress_percentage = 100;
\* job.save(); return recording_id
AnalyzeSaveJob ==
  \E e \in BagToSet(execs) :
    /\ e.task = Analyze /\ e.pc = "save_job"
    /\ jobs' = [jobs EXCEPT ![JobOf(e.r)].status = "completed",
                            ![JobOf(e.r)].completed_at = now,
                            ![JobOf(e.r)].progress_percentage = 100]
    /\ execs' = BagRemove(execs, e)
    /\ queue' = QueueAfterReturn(e, e.r)
    /\ sent' = SentAfterReturn(e, e.r)
    /\ chainErrors' = ChainErrorsAfterReturn(e, e.r)
    /\ UNCHANGED <<now, recording, files, steps, transcriptions, segments, analyses,
                   store, scratch, failed, uploads, redelivered, direct, settings, action_items>>

\* ------------------------------------------------------- direct invocation
\* the stage before stage task t in the chain
Predecessor(t) ==
  CASE t = Extract -> Convert
    [] t = Transcribe -> Extract
    [] t = Analyze -> Transcribe

StepCompleted(r, t) ==
  /\ HasJob(r)
  /\ \E i \in StepsOf(JobOf(r), StepName(t)) : steps[i].status = "completed"

\* task.delay(recording_id): a task sent on its own, outside the chain, by an
\* operator who, once nothing of the pipeline is queued or running, dispatches
\* the orchestrator or the first stage again, or a stage whose predecessor has
\* completed
DirectDispatch(t, r) ==
  /\ direct < MaxDirect
  /\ queue = EmptyBag /\ execs = EmptyBag
  /\ IF t \in {Pipeline, Convert} THEN TRUE ELSE StepCompleted(r, Predecessor(t))
  /\ direct' = direct + 1
  /\ queue' = BagAdd(queue, Message(t, <<r>>, 0, <<>>))
  /\ sent' = [sent EXCEPT ![t] = @ + 1]
  /\ UNCHANGED <<now, recording, files, jobs, steps, transcriptions, segments,
                 analyses, store, scratch, execs, chainErrors, failed, uploads,
                 redelivered, settings, action_items>>

\* ------------------------------------------------------------ specification
\* the deployed program: the upload endpoint, the orchestrator and the chain
PipelineNext ==
  \/ \E r \in Recordings : UploadComplete(r)
  \/ \E m \in BagToSet(queue) : Deliver(m)
  \/ PipelineSetProcessing
  \/ PipelineCreateJob
  \/ \E ok \in BOOLEAN : PipelineApplyAsync(ok)
  \/ ConvertBegin
  \/ \E ok \in BOOLEAN : ConvertDownload(ok)
  \/ \E ok \in BOOLEAN : ConvertFfmpeg(ok)
  \/ \E ok \in BOOLEAN : ConvertUpload(ok)
  \/ ConvertSaveFile
  \/ ConvertComplete
  \/ ConvertReturn

Next ==
  \/ Tick
  \/ \E m \in BagToSet(queue) : Redeliver(m)
  \/ PipelineNext

Spec == Init /\ [][Next]_vars

\* The stage tasks as Celery registers them: each can also be sent on its own
StagesNext ==
  \/ ExtractBegin
  \/ \E ok \in BOOLEAN : ExtractDownload(ok)
  \/ \E ok \in BOOLEAN : ExtractFfmpeg(ok)
  \/ \E ok \in BOOLEAN : ExtractUpload(ok)
  \/ ExtractSaveFile
  \/ ExtractComplete
  \/ ExtractReturn
  \/ TranscribeBegin
  \/ \E ok \in BOOLEAN : TranscribeDownload(ok)
  \/ \E ok \in BOOLEAN, resp \in Responses : TranscribeCall(ok, resp)
  \/ TranscribeCreateTranscription
  \/ TranscribeCreateSegment
  \/ TranscribeComplete
  \/ TranscribeReturn
  \/ AnalyzeBegin
  \/ \E ok \in BOOLEAN : AnalyzeGenerate(ok)
  \/ AnalyzeComplete
  \/ AnalyzeSaveRecording
  \/ AnalyzeSaveJob
  \/ \E t \in Tasks, r \in Recordings : DirectDispatch(t, r)

\* (deliveries are exactly-once and the clock stands still here: duplicates come
\* from re-dispatch, and timestamps are compared under Spec only)
DirectNext == PipelineNext \/ StagesNext

SpecDirect == Init /\ [][DirectNext]_vars


\* ------------------------------------------------ two recordings side by side
\* Both API keys are configured. Upload-complete requests arrive for either
\* recording, so the second recording runs what the orchestrator's chain
\* starts, while the stages of the first can also be sent on their own.
InitTwo ==
  /\ InitOf(AllRecordings)
  /\ settings = [DEEPGRAM_API_KEY |-> TRUE, GEMINI_API_KEY |-> TRUE]

TwoNext ==
  \/ DirectNext
  \/ \E r \in AllRecordings \ Recordings : UploadComplete(r)

SpecTwo == InitTwo /\ [][TwoNext]_vars

\* ------------------------------------------------------ extract_action_items
\* Texts are sequences of characters.
Digits == {"0", "1", "2", "3", "4", "5", "6", "7", "8", "9"}
Whitespace == {" ", "\t", "\r", "\n"}

\* lines the text generation service may put in its response
ResponseLines ==
  { <<>>,
    <<" ">>,
    <<"1", ".", "a">>,
    <<"\t", "-", "a", " ">>,
    <<"*">>,
    <<"a", "1">>,
    <<"a", " ", "-">> }

\* (a variant that does not trim the line)
Strip_Identity(line) == line

\* line.strip()
RECURSIVE LStrip(_)
LStrip(line) ==
  IF line # <<>> /\ Head(line) \in Whitespace THEN LStrip(Tail(line)) ELSE line

RECURSIVE RStrip(_)
RStrip(line) ==
  IF line # <<>> /\ line[Len(line)] \in Whitespace
    THEN RStrip(SubSeq(line, 1, Len(line) - 1))
    ELSE line

Strip(line) == RStrip(LStrip(line))

\* items_text.split('\n')
RECURSIVE Split(_)
Split(text) ==
  IF \A i \in 1..Len(text) : text[i] # "\n"
    THEN <<text>>
    ELSE LET i == CHOOSE i \in 1..Len(text) :
                    text[i] = "\n" /\ \A j \in 1..(i - 1) : text[j] # "\n"
         IN <<SubSeq(text, 1, i - 1)>> \o Split(SubSeq(text, i + 1, Len(text)))

\* line and (line[0].isdigit() or line.startswith('-') or line.startswith('*'))
IsListItem(line) ==
  line # <<>> /\ (line[1] \in Digits \/ line[1] = "-" \/ line[1] = "*")

\* for line in items_text.split('\n'): line = line.strip(); if ...: items.append(line)
RECURSIVE ParseItems(_, _)
ParseItems(lines, items) ==
  IF lines = <<>>
    THEN items
    ELSE ParseItems(Tail(lines),
                    IF IsListItem(Strip(Head(lines)))
                      THEN Append(items, Strip(Head(lines)))
                      ELSE items)

pipelineVars ==
  <<now, recording, files, jobs, steps, transcriptions, segments, analyses, store,
    scratch, queue, execs, sent, chainErrors, failed, uploads, redelivered, direct,
    settings>>

\* response.text: the service's answer, one more line of it
ResponseLine(line) ==
  /\ ~action_items.called
  /\ Len(action_items.lines) < MaxLines
  /\ action_items' =
       [action_items EXCEPT
          !.lines = Append(@, line),
          !.text = IF action_items.lines = <<>> THEN line ELSE @ \o <<"\n">> \o line]
  /\ UNCHANGED pipelineVars

\* extract_action_items(model, transcript), from response.text on
ExtractActionItems ==
  /\ ~action_items.called
  /\ action_items' =
       [action_items EXCEPT
          !.called = TRUE,
          !.items = ParseItems(Split(action_items.text), <<>>),
          !.total_count = Len(ParseItems(Split(action_items.text), <<>>))]
  /\ UNCHANGED pipelineVars

ActionItemsNext ==
  \/ \E line \in ResponseLines : ResponseLine(line)
  \/ ExtractActionItems

SpecActionItems == Init /\ [][ActionItemsNext]_vars


\* ================================================================== claims
StageSet == {Convert, Extract, Transcribe, Analyze}

\* the task t has a message on the broker or an execution in progress
InProgress(t) ==
  \/ \E m \in BagToSet(queue) : m.task = t
  \/ \E e \in BagToSet(execs) : e.task = t

Quiescent == queue = EmptyBag /\ execs = EmptyBag

\* the chain has tried to hand over to stage task t
HandedOver(t) ==
  \/ sent[t] > 0
  \/ \E c \in chainErrors : c.task = t
  \/ InProgress(t)

StepFailedSomewhere == \E i \in 1..Len(steps) : steps[i].status = "failed"

\* the state a successful full run ends in
FullRunState(r) ==
  /\ Cardinality(JobsOf(r)) = 1
  /\ Len(steps) = 4
  /\ \A t \in StageSet :
       /\ Cardinality(StepsOf(JobOf(r), StepName(t))) = 1
       /\ StepCompleted(r, t)
  /\ Cardinality(TranscriptionsOf(r)) = 1
  /\ Len(analyses) = 4
  /\ \A k \in 1..Len(AnalysisTypes) :
       Cardinality(AnalysesOf(r, AnalysisTypes[k])) = 1
  /\ recording[r].status = "completed"

\* a run started once has ended and nothing in it failed
CleanRunEnded ==
  /\ uploads = 1 /\ sent[Pipeline] = 1 /\ redelivered = 0 /\ direct = 0
  /\ Quiescent
  /\ failed = {}
  /\ ~StepFailedSomewhere

\* C1: a pipeline started once, in which no stage attempt fails, ends with one
\* Job, the four Steps completed, one Transcription, the four AIAnalysis rows
\* and Recording.status = completed.
C1_FullRun == \A r \in Recordings : CleanRunEnded => FullRunState(r)

Steps(e) == CopiesIn(e, execs') < CopiesIn(e, execs)

RetryMessage(e) == Message(e.task, <<e.r>>, e.retries + 1, e.chain)

\* C3: a stage task delivered when its Step is already completed returns
\* success: it schedules no retry and does not fail, runs nothing of its body,
\* adds no Transcription, TranscriptionSegment or AIAnalysis row and leaves the
\* Step completed.
C3_DuplicateIsNoOp ==
  [][\A e \in BagToSet(execs) :
       (e.task \in StageSet /\ e.pc = "start" /\ StepCompleted(e.r, e.task) /\ Steps(e))
         => /\ execs' = BagRemove(execs, e)
            /\ CopiesIn(RetryMessage(e), queue') <= CopiesIn(RetryMessage(e), queue)
            /\ failed' = failed
            /\ steps' = steps
            /\ transcriptions' = transcriptions
            /\ segments' = segments
            /\ analyses' = analyses]_vars

\* str(exc) of the failures of the external services
TransientErrors ==
  {"ClientError", "FFmpeg failed", "Audio extraction failed", "Deepgram error",
   "Gemini error"}

\* C4: a retry of a stage whose earlier attempt failed on a transient error
\* runs the stage again: the attempt gets past the Step (which is running
\* again) towards the adapter, instead of failing at once.
C4_RetryRunsStage ==
  [][\A e \in BagToSet(execs) :
       ( /\ e.task \in StageSet /\ e.pc = "start" /\ e.retries > 0
         /\ HasJob(e.r)
         /\ \E i \in StepsOf(JobOf(e.r), StepName(e.task)) :
              steps[i].status = "failed" /\ steps[i].error_message \in TransientErrors
         /\ Steps(e) )
         => /\ \E i \in 1..Len(steps') :
                 /\ steps'[i].step_name = StepName(e.task)
                 /\ steps'[i].status = "running"
            /\ \E e2 \in BagToSet(execs') :
                 e2.task = e.task /\ e2.retries = e.retries /\ e2.pc # "start"]_vars

\* every attempt of stage task t of recording r has failed and none is left
ExhaustedWithoutSuccess(r, t) ==
  /\ [task |-> t, r |-> r] \in failed
  /\ ~InProgress(t)
  /\ ~StepCompleted(r, t)

StepsNamed(name) == {i \in 1..Len(steps) : steps[i].step_name = name}

\* when every attempt of transcode has failed its Step is failed and there is
\* no extract-audio Step
TranscodeScenario ==
  \A r \in Recordings :
    ExhaustedWithoutSuccess(r, Convert) =>
      /\ \A i \in StepsNamed(StepName(Convert)) : steps[i].status = "failed"
      /\ StepsNamed(StepName(Extract)) = {}

AllRuns == BagToSet(execs) \cup BagToSet(queue)

C6_ExhaustionFailsJob ==
  \A r \in Recordings : \A t \in StageSet :
    (HasJob(r) /\ ExhaustedWithoutSuccess(r, t)) =>
      /\ jobs[JobOf(r)].status = "failed"
      /\ recording[r].status = "failed"
      /\ \E i \in StepsOf(JobOf(r), StepName(t)) :
           /\ steps[i].status = "failed"
           /\ recording[r].error_message = steps[i].error_message

\* C7: once a stage has exhausted its retries without succeeding, no later
\* stage has a Step and none has been or is being dispatched.
C7_ChainHalts ==
  \A r \in Recordings : \A k \in 1..Len(StageTasks) :
    ExhaustedWithoutSuccess(r, StageTasks[k]) =>
      \A k2 \in (k + 1)..Len(StageTasks) :
        /\ ~HandedOver(StageTasks[k2])
        /\ StepsNamed(StepName(StageTasks[k2])) = {}

\* transcode has exhausted its retries and its Step is failed
C7_Witness ==
  \E r \in Recordings :
    /\ ExhaustedWithoutSuccess(r, Convert)
    /\ \E i \in StepsNamed(StepName(Convert)) : steps[i].status = "failed"
    /\ Quiescent

\* C8: at most one ProcessingJob per Recording, one ProcessingStep per
\* (job, step_name) and one AIAnalysis per (recording, analysis_type).
C8_Uniqueness ==
  /\ \A r \in Recordings : Cardinality(JobsOf(r)) <= 1
  /\ \A i, j \in 1..Len(steps) :
       (steps[i].job = steps[j].job /\ steps[i].step_name = steps[j].step_name) => i = j
  /\ \A i, j \in 1..Len(analyses) :
       (analyses[i].recording = analyses[j].recording
        /\ analyses[i].analysis_type = analyses[j].analysis_type) => i = j

\* all rows exist and a second dispatch of transcode has been refused
C8_Witness ==
  \E r \in Recordings :
    /\ HasJob(r)
    /\ Len(steps) = 4
    /\ Len(analyses) = 4
    /\ [task |-> Convert, r |-> r] \in failed

\* C9: once the orchestrator, started once, is through, there is exactly one
\* Job, with started_at set, the Recording has left the upload states and the
\* chain has been dispatched exactly once, also when enqueueing failed at first.
C9_StartPipeline ==
  \A r \in Recordings :
    (uploads = 1 /\ sent[Pipeline] = 1 /\ redelivered = 0 /\ ~InProgress(Pipeline)) =>
      /\ Cardinality(JobsOf(r)) = 1
      /\ jobs[JobOf(r)].status \in {"running", "completed"}
      /\ jobs[JobOf(r)].started_at # NoTime
      /\ recording[r].status \in {"processing", "completed"}
      /\ sent[Convert] = 1

\* the stage task whose Step has the given step_name
TaskOfStep(name) == CHOOSE t \in StageSet : StepName(t) = name

\* C10: a Step starts pending or running and moves only running -> completed
\* or running -> failed; a completed Step keeps its status, and a failed Step
\* changes status only in a step of an execution of the same stage.
C10_StepTransitions ==
  [][/\ Len(steps') >= Len(steps)
     /\ \A i \in 1..Len(steps) :
          /\ steps'[i].job = steps[i].job /\ steps'[i].step_name = steps[i].step_name
          /\ steps[i].status = "completed" => steps'[i].status = "completed"
          /\ steps[i].status = "running" =>
               steps'[i].status \in {"running", "completed", "failed"}
          /\ steps[i].status = "pending" => steps'[i].status \in {"pending", "running"}
          /\ (steps[i].status = "failed" /\ steps'[i].status # "failed") =>
               \E e \in BagToSet(execs) :
                 e.task = TaskOfStep(steps[i].step_name) /\ Steps(e)
     /\ \A i \in (Len(steps) + 1)..Len(steps') :
          steps'[i].status \in {"pending", "running"}]_vars

\* a stage was dispatched again after its Step completed, and another Step failed
C10_Witness ==
  \E r \in Recordings :
    /\ \E t \in StageSet : StepCompleted(r, t) /\ [task |-> t, r |-> r] \in failed
    /\ StepFailedSomewhere

\* C11: every pipeline that is started ends with Recording.status completed or
\* failed: once nothing of the pipeline is queued or running any more (the
\* worker has taken every message and every adapter has returned or failed),
\* the recording is not left in status processing.
C11_NotLeftProcessing ==
  \A r \in Recordings : Quiescent => recording[r].status # "processing"

\* the pipeline of recording r has failed: a stage of its Job is out of retries
\* and its Step is failed
PipelineFailed(r) ==
  /\ HasJob(r)
  /\ \E t \in StageSet :
       /\ ExhaustedWithoutSuccess(r, t)
       /\ \E i \in StepsOf(JobOf(r), StepName(t)) : steps[i].status = "failed"

\* the first stage of the chain whose Step is not completed
FirstIncomplete(r) ==
  StageTasks[CHOOSE k \in 1..Len(StageTasks) :
               /\ ~StepCompleted(r, StageTasks[k])
               /\ \A j \in 1..(k - 1) : StepCompleted(r, StageTasks[j])]

\* C12: the orchestrator dispatched again for a recording whose pipeline failed
\* resumes it: it does not fail or retry on what exists, sends no stage whose
\* Step is completed, and ends having sent the first stage whose Step is not
\* completed.
C12_OrchestratorResumes ==
  [][\A e \in BagToSet(execs) :
       (e.task = Pipeline /\ e.retries = 0 /\ e.pc \in {"start", "create_job"}
        /\ PipelineFailed(e.r) /\ Steps(e))
         => /\ failed' = failed
            /\ CopiesIn(RetryMessage(e), queue') <= CopiesIn(RetryMessage(e), queue)
            /\ \A t \in StageSet : sent'[t] > sent[t] => t = FirstIncomplete(e.r)
            /\ (\A e2 \in BagToSet(execs') : e2.task # Pipeline)
                 => sent'[FirstIncomplete(e.r)] = sent[FirstIncomplete(e.r)] + 1]_vars

\* the execution e is at a statement that raises a configuration error (an API
\* key is not set) or a data error (a row or file the stage needs is missing)
ConfigOrDataError(e) ==
  \/ /\ e.task \in StageSet /\ e.pc = "start"
     /\ ~HasJob(e.r) \/ (e.task = Analyze /\ TranscriptionsOf(e.r) = {})
  \/ /\ e.task \in {Convert, Extract} /\ e.pc = "download"
     /\ FilesOf(e.r, "original_webm") = {}
  \/ /\ e.task = Transcribe /\ e.pc = "download"
     /\ ~settings.DEEPGRAM_API_KEY \/ FilesOf(e.r, "audio_extract") = {}
  \/ /\ e.task = Analyze /\ e.pc = "generate"
     /\ ~settings.GEMINI_API_KEY

\* C13: a stage attempt that hits a configuration or data error fails at once
\* and is not retried: the execution ends, no retry is scheduled, and the Step
\* the attempt created is failed.
C13_NoRetryOnConfigOrData ==
  [][\A e \in BagToSet(execs) :
       (ConfigOrDataError(e) /\ Steps(e))
         => /\ execs' = BagRemove(execs, e)
            /\ CopiesIn(RetryMessage(e), queue') <= CopiesIn(RetryMessage(e), queue)
            /\ e.step # NoStep => steps'[e.step].status = "failed"]_vars

\* the step hands a failure of execution e to self.retry: a retry is scheduled
\* or, out of retries, the task ends in FAILURE
Raises(e) ==
  \/ CopiesIn(RetryMessage(e), queue') > CopiesIn(RetryMessage(e), queue)
  \/ [task |-> e.task, r |-> e.r] \in failed' \ failed

\* C14: whenever a stage execution raises, the Step of that (job, stage) is
\* failed with a non-empty error text at the moment the failure is handed to
\* the retry mechanism.
C14_FailureRecorded ==
  [][\A e \in BagToSet(execs) :
       (e.task \in StageSet /\ Steps(e) /\ Raises(e))
         => \E i \in 1..Len(steps') :
              /\ jobs'[steps'[i].job].recording = e.r
              /\ steps'[i].step_name = StepName(e.task)
              /\ steps'[i].status = "failed"
              /\ steps'[i].error_message # ""]_vars

\* some, but not all, of the AIAnalysis rows of recording r exist
PartialAnalyses(r) ==
  /\ \E ty \in DOMAIN AnalysisTypes : AnalysesOf(r, AnalysisTypes[ty]) # {}
  /\ \E ty \in DOMAIN AnalysisTypes : AnalysesOf(r, AnalysisTypes[ty]) = {}

\* C15: a retry of analyze that runs when some of the four AIAnalysis rows
\* exist creates no duplicate row and does not fail on what exists: the only
\* failure it can hand to the retry mechanism is a failure of the adapter.
C15_RetryKeepsAnalyses ==
  [][\A e \in BagToSet(execs) :
       (e.task = Analyze /\ e.retries > 0 /\ PartialAnalyses(e.r) /\ Steps(e))
         => /\ Raises(e) => recording'[e.r].error_message = "Gemini error"
            /\ \A i, j \in 1..Len(analyses') :
                 (analyses'[i].recording = analyses'[j].recording
                  /\ analyses'[i].analysis_type = analyses'[j].analysis_type) => i = j]_vars

\* C16: whatever upload-complete requests arrive for a recording,
\* process_recording_pipeline is triggered at most once for it, and only when
\* the RecordingFile of the original upload has been recorded.
C16_TriggeredOnce ==
  \A r \in Recordings :
    /\ sent[Pipeline] <= 1
    /\ sent[Pipeline] >= 1 => FilesOf(r, "original_webm") # {}

\* a second upload-complete request has been handled
C16_Witness == uploads >= 2 /\ sent[Pipeline] = 1

\* C17: once the transcribe stage has run through, the Transcription has
\* num_speakers equal to the number of distinct speaker ids of the utterances
\* the adapter returned (0 for none), there is exactly one TranscriptionSegment
\* per utterance, and each has the speaker id of its utterance and the label
\* "Speaker <id>".
C17_SpeakersAndSegments ==
  \A r \in Recordings : StepCompleted(r, Transcribe) =>
    \A k \in TranscriptionsOf(r) :
      LET utts == transcriptions[k].deepgram_response
          segs == SegmentsOf(k)
      IN /\ transcriptions[k].num_speakers =
              Cardinality({utts[i].speaker : i \in 1..Len(utts)})
         /\ Len(segs) = Len(utts)
         /\ \A i \in 1..Len(utts) :
              /\ segments[segs[i]].speaker_id = utts[i].speaker
              /\ segments[segs[i]].speaker_label = <<"Speaker", utts[i].speaker>>
              /\ segments[segs[i]].start_time_seconds = utts[i].start

\* two utterances of one speaker have been stored
C17_Witness ==
  \E r \in Recordings :
    /\ StepCompleted(r, Transcribe)
    /\ \E k \in TranscriptionsOf(r) :
         transcriptions[k].num_speakers = 1 /\ Len(SegmentsOf(k)) = 2

\* the first character of line l that is not whitespace is a digit, '-' or '*'
LooksLikeItem(l) ==
  \E i \in 1..Len(l) :
    /\ l[i] \in Digits \cup {"-", "*"}
    /\ \A j \in 1..(i - 1) : l[j] \in Whitespace

\* t is l without the whitespace at its two ends
TrimOf(l, t) ==
  \E i, j \in 1..Len(l) :
    /\ t = SubSeq(l, i, j)
    /\ l[i] \notin Whitespace /\ l[j] \notin Whitespace
    /\ \A k \in 1..Len(l) : (k < i \/ k > j) => l[k] \in Whitespace

\* C18: the items extract_action_items returns are exactly the lines of the
\* response text that, trimmed, are non-empty and begin with a digit, '-' or
\* '*', in their order in the text, and total_count is their number.
C18_ActionItems ==
  action_items.called =>
    LET lines == action_items.lines
        found == SelectSeq([k \in 1..Len(lines) |-> k], LAMBDA k : LooksLikeItem(lines[k]))
    IN /\ Len(action_items.items) = Len(found)
       /\ \A n \in 1..Len(found) : TrimOf(lines[found[n]], action_items.items[n])
       /\ action_items.total_count = Len(found)

\* a text of 3 numbered lines and 2 lines that are no list items gave 3 items,
\* one of the lines having whitespace around it
C18_Witness ==
  /\ action_items.called
  /\ Len(action_items.lines) = 5
  /\ Cardinality({k \in 1..5 : action_items.lines[k] = <<"1", ".", "a">>}) = 3
  /\ \E k \in 1..5 : action_items.lines[k] = <<"a", " ", "-">>
  /\ \E k \in 1..5 : action_items.lines[k] = <<" ">>
  /\ action_items.total_count = 3

C20_FailedOnlyWhenExhausted ==
  \A m \in BagToSet(queue) :
    (m.task \in StageSet /\ m.retries > 0) =>
      /\ \A i \in StepsNamed(StepName(m.task)) : steps[i].status # "failed"
      /\ recording[m.args[1]].status # "failed"

\* the step ends execution e with the task returning: its Step stays completed
Returns(e) ==
  /\ execs' = BagRemove(execs, e)
  /\ e.step # NoStep
  /\ steps'[e.step].status = "completed"

\* the stage after stage task t in the chain
Successor(t) ==
  CASE t = Convert -> Extract
    [] t = Extract -> Transcribe
    [] t = Transcribe -> Analyze

\* the Job and the Recording of r are finalized
Finalized(r) ==
  /\ jobs[JobOf(r)].status = "completed"
  /\ jobs[JobOf(r)].progress_percentage = 100
  /\ jobs[JobOf(r)].completed_at # NoTime
  /\ recording[r].status = "completed"
  /\ recording[r].completed_at # NoTime

\* C21: a stage that returns hands over to the next stage of the chain, which
\* is dispatched once more; analyze, the last stage, leaves the Job completed
\* with progress 100 and completed_at set and the Recording completed with
\* completed_at set; and a Job is completed only if the analyze Step is.
C21_HandOverOrFinalize ==
  [][/\ \A e \in BagToSet(execs) :
          (e.task \in StageSet /\ Steps(e) /\ Returns(e)) =>
            IF e.task = Analyze
              THEN Finalized(e.r)'
              ELSE sent'[Successor(e.task)] = sent[Successor(e.task)] + 1
     /\ \A r \in Recordings :
          (HasJob(r)' /\ jobs'[JobOf(r)'].status = "completed") => StepCompleted(r, Analyze)'
    ]_vars


\* C22: a Transcription and its segments appear as one batch: whenever a
\* Transcription exists, every utterance of its response has its segment and the
\* speech_to_text Step is completed or is about to be completed by the attempt
\* that wrote them; no state shows a Transcription with only part of its segments.
C22_TranscriptBatch ==
  \A k \in 1..Len(transcriptions) :
    /\ Len(SegmentsOf(k)) = Len(transcriptions[k].deepgram_response)
    /\ \/ StepCompleted(transcriptions[k].recording, Transcribe)
       \/ \E e \in BagToSet(execs) :
            /\ e.task = Transcribe /\ e.row = k
            /\ e.pc = "create_segments" /\ e.done = Len(e.resp)


\* C23: the scratch files of a stage are removed on its success path and on its
\* failure path alike: once no stage execution is in progress, no scratch file
\* is left on the worker.
C23_ScratchRemoved ==
  (\A e \in BagToSet(execs) : e.task \notin StageSet) => scratch = {}


\* the Steps of transcode and extract-audio
ArtifactSteps == StepsNamed(StepName(Convert)) \cup StepsNamed(StepName(Extract))

\* the file type under which the stage of Step i records its output
OutputFileType(i) ==
  IF steps[i].step_name = StepName(Convert) THEN "converted_mp4" ELSE "audio_extract"

\* C24: a completed Step of transcode or extract-audio references an output
\* artifact that is in the object store and that a RecordingFile row of the same
\* recording, of the stage's file type, records.
C24_CompletedStepHasArtifact ==
  \A i \in ArtifactSteps :
    steps[i].status = "completed" =>
      /\ steps[i].output_file \in store
      /\ \E f \in FilesOf(jobs[steps[i].job].recording, OutputFileType(i)) :
           files[f].s3_key = steps[i].output_file

\* both artifact stages have completed their Steps, and a task has used up its
\* retries as well
C24_Witness ==
  /\ \E i \in StepsNamed(StepName(Convert)) : steps[i].status = "completed"
  /\ \E i \in StepsNamed(StepName(Extract)) : steps[i].status = "completed"
  /\ failed # {}


\* the execution e of a stage holds a running Step: it has created the Step and
\* has neither completed it nor marked it failed
Holding(e) ==
  /\ e.task \in StageSet
  /\ e.step # NoStep
  /\ steps[e.step].status = "running"

\* the running Steps of recording r
RunningSteps(r) ==
  {i \in 1..Len(steps) : jobs[steps[i].job].recording = r /\ steps[i].status = "running"}

RowsOf(tbl, r) == SelectSeq(tbl, LAMBDA x : x.recording = r)

\* everything the pipeline keeps for recording r: its Recording row, Job, Steps,
\* files, Transcription with segments, AIAnalysis rows, stored artifacts and
\* scratch files
PartOf(r) ==
  [recording      |-> recording[r],
   jobs           |-> RowsOf(jobs, r),
   steps          |-> SelectSeq(steps, LAMBDA s : jobs[s.job].recording = r),
   files          |-> RowsOf(files, r),
   transcriptions |-> RowsOf(transcriptions, r),
   segments       |-> SelectSeq(segments,
                        LAMBDA s : transcriptions[s.transcription].recording = r),
   analyses       |-> RowsOf(analyses, r),
   store          |-> store \cap {S3Key(r, n) : n \in {"original.webm", "converted.mp4", "audio.wav"}},
   scratch        |-> scratch \cap {TmpPath(r, n) : n \in {"original.webm", "converted.mp4", "audio.wav"}}]

\* C26: pipelines of different recordings are independent: a step of a task
\* execution for one recording leaves the Recording row, Job, Steps, files,
\* Transcription, segments, AIAnalysis rows, stored artifacts and scratch files
\* of every other recording unchanged.
C26_Independent ==
  [][\A e \in BagToSet(execs) :
       Steps(e) => \A b \in AllRecordings \ {e.r} : PartOf(b)' = PartOf(b)
    ]_vars

\* executions of the two recordings are in progress at once, each holding a
\* Step, with scratch files of both on the worker
C26_Witness ==
  \E e1, e2 \in BagToSet(execs) :
    /\ e1.r = "R1" /\ e2.r = "R2"
    /\ e1.step # NoStep /\ e2.step # NoStep
    /\ e1.task # e2.task
    /\ TmpPath("R1", "original.webm") \in scratch
    /\ TmpPath("R2", "original.webm") \in scratch


\* the executions that have read their input
HaveRead(t) == {e \in BagToSet(execs) : e.task = t /\ e.input # <<>>}

\* analyze reads the Transcription row of its own recording, which the
\* transcribe stage wrote
AnalyzeReadsTranscription ==
  \A e \in BagToSet(execs) :
    (e.task = Analyze /\ e.row # 0) => e.row \in TranscriptionsOf(e.r)

\* C27 as stated: each stage after the first reads what the stage immediately
\* before it recorded: extract-audio the converted video of transcode,
\* transcribe the audio of extract-audio, analyze the Transcription of
\* transcribe; only transcode reads the original upload.
C27_ReadsPredecessorOutput ==
  /\ \A e \in HaveRead(Convert) : e.input = S3Key(e.r, "original.webm")
  /\ \A e \in HaveRead(Extract) : e.input = S3Key(e.r, "converted.mp4")
  /\ \A e \in HaveRead(Transcribe) : e.input = S3Key(e.r, "audio.wav")
  /\ AnalyzeReadsTranscription

\* C27: transcode and extract-audio both read the original upload; transcribe
\* reads the audio artifact that extract-audio stored and recorded; analyze
\* reads the Transcription of transcribe. No stage reads the converted video.
C27_StageInputs ==
  /\ \A e \in HaveRead(Convert) \cup HaveRead(Extract) :
       /\ e.input = S3Key(e.r, "original.webm")
       /\ \E f \in FilesOf(e.r, "original_webm") : files[f].s3_key = e.input
  /\ \A e \in HaveRead(Transcribe) :
       /\ e.input = S3Key(e.r, "audio.wav")
       /\ e.input \in store
       /\ \E f \in FilesOf(e.r, "audio_extract") : files[f].s3_key = e.input
  /\ AnalyzeReadsTranscription

\* extract-audio has read its input while the converted video of transcode is
\* stored and recorded
C27_Witness ==
  \E e \in HaveRead(Extract) :
    /\ S3Key(e.r, "converted.mp4") \in store
    /\ FilesOf(e.r, "converted_mp4") # {}


\* C28: Recording.status = 'completed' is terminal for the pipeline: no step of
\* the orchestrator or of a stage, a duplicate trigger, delivery or retry
\* included, changes a completed Recording to 'processing' or 'failed'.
C28_CompletedIsTerminal ==
  [][\A r \in Recordings :
       recording[r].status = "completed" =>
         recording'[r].status \notin {"processing", "failed"}
    ]_vars


\* C29: in every reachable state the Job of a recording is completed exactly
\* when the Recording is completed.
C29_CompletedTogether ==
  \A r \in Recordings :
    (HasJob(r) /\ jobs[JobOf(r)].status = "completed") <=> recording[r].status = "completed"


\* C30: every link of the chain is called with exactly the arguments it
\* accepts: no call of a stage is rejected, and once a non-final stage has
\* returned with its Step completed the next stage has been dispatched.
C30_ChainArguments ==
  /\ \A c \in chainErrors : ArgsAccepted(c.task, c.args)
  /\ \A m \in BagToSet(queue) : ArgsAccepted(m.task, m.args)
  /\ \A r \in Recordings : \A k \in 1..3 :
       (StepCompleted(r, StageTasks[k]) /\ ~InProgress(StageTasks[k]))
         => sent[StageTasks[k + 1]] > 0

====
